---- MODULE Spec2Model ----
(***************************************************************************)
(* Work-clock popup (popup.js): time / earnings / countdown arithmetic,    *)
(* the chrome.storage.local settings life cycle (init, loadSettings,       *)
(* saveSettings) and the chrome.storage.sync based recomputation.          *)
(*                                                                         *)
(* popup.js holds two parallel implementations.  Lines 1-247 work on the   *)
(* global `settings` record (chrome.storage.local, key workSettings);      *)
(* lines 313-549 work on the items of chrome.storage.sync.  Both declare a *)
(* function calculateWorkProgress; the second one is modelled under the    *)
(* name calculateWorkProgressSync, and each caller is bound to the         *)
(* declaration of its own implementation (loaded as one script, the second *)
(* declaration would replace the first, and only the DOMContentLoaded      *)
(* handler of the second implementation is ever registered; init is taken  *)
(* here as the entry point of the first implementation).                   *)
(*                                                                         *)
(* Numbers are JavaScript numbers abstracted to exact rationals plus NaN   *)
(* and the two infinities (rounding of doubles is not modelled).  Strings  *)
(* of digits ("22000", "09:00") are sequences of digits.                   *)
(***************************************************************************)
EXTENDS Integers, Sequences, FiniteSets, TLC

VARIABLES
  now,        \* the wall clock: [day |-> 0..6 (getDay), ms |-> ms since midnight]
  settings,   \* popup.js:13 the global settings record
  local,      \* chrome.storage.local: <<>> or <<workSettings record>>
  form,       \* the settings form fields (texts), popup.js:212-218 / 229-235
  pc,         \* "start" before init() ran, "running" after
  pc2,        \* "start" before the DOMContentLoaded handler ran, "running" after
  loadPc,     \* loadSettings: "idle", "getPending", "resolved", "done"
  saved,      \* loadSettings: the awaited result of storage.local.get
  storageQ,   \* chrome.storage.local requests not yet served, in issue order
  saveResume, \* saveSettings continuations ready to run (set was served)
  dom,        \* what updateDisplay wrote / computed last
  sync,       \* chrome.storage.sync items
  syncGets,   \* chrome.storage.sync.get callbacks not yet run
  dom2,       \* what updateTimeDisplay and the sync callback wrote last
  thrown,     \* last uncaught error of the sync callback ("none", "TypeError")
  nSaves,     \* number of save clicks / submits so far
  nTicks      \* number of timer ticks so far

vars == <<now, settings, local, form, pc, pc2, loadPc, saved, storageQ, saveResume,
          dom, sync, syncGets, dom2, thrown, nSaves, nTicks>>

----------------------------------------------------------------------------
(* Bounds of the model *)

\* clock samples per minute (2: the clock is observed every 30 seconds)
SubMinute == 2
\* timer ticks in the life-cycle specification
MaxTicks == 2
\* save clicks / form submits in the life-cycle specification
MaxSaves == 2

----------------------------------------------------------------------------
(* JavaScript numbers: exact rationals, NaN, +Infinity, -Infinity *)

RECURSIVE GCD(_, _)
GCD(a, b) == IF b = 0 THEN a ELSE GCD(b, a % b)

Abs(x) == IF x < 0 THEN -x ELSE x

Sign(x) == IF x < 0 THEN -1 ELSE IF x > 0 THEN 1 ELSE 0

\* the rational n/d (d # 0) in lowest terms with a positive denominator
Fin(n, d) ==
  LET g == GCD(Abs(n), Abs(d))
      s == IF d < 0 THEN -1 ELSE 1
  IN [k |-> "fin", n |-> (s * n) \div g, d |-> (s * d) \div g]

Num(i) == [k |-> "fin", n |-> i, d |-> 1]

NaN == [k |-> "nan", n |-> 0, d |-> 0]

Infinity(s) == [k |-> "inf", n |-> s, d |-> 0]

IsFin(a) == a.k = "fin"

\* a / b
NumDiv(a, b) ==
  IF a.k = "nan" \/ b.k = "nan" THEN NaN
  ELSE IF a.k = "inf"
    THEN IF b.k = "inf" THEN NaN
         ELSE Infinity(IF b.n < 0 THEN -a.n ELSE a.n)
  ELSE IF b.k = "inf" THEN Num(0)
  ELSE IF b.n = 0
    THEN IF a.n = 0 THEN NaN ELSE Infinity(Sign(a.n))
  ELSE Fin(a.n * b.d, a.d * b.n)

\* a * b
NumMul(a, b) ==
  IF a.k = "nan" \/ b.k = "nan" THEN NaN
  ELSE IF a.k = "inf" \/ b.k = "inf"
    THEN IF a.n = 0 \/ b.n = 0 THEN NaN
         ELSE Infinity(Sign(a.n) * Sign(b.n))
  ELSE Fin(a.n * b.n, a.d * b.d)

\* a + b
NumAdd(a, b) ==
  IF a.k = "nan" \/ b.k = "nan" THEN NaN
  ELSE IF a.k = "inf"
    THEN IF b.k = "inf" /\ b.n # a.n THEN NaN ELSE a
  ELSE IF b.k = "inf" THEN b
  ELSE Fin(a.n * b.d + b.n * a.d, a.d * b.d)

\* a - b
NumSub(a, b) == NumAdd(a, NumMul(Num(-1), b))

\* a < b (false when either is NaN)
NumLt(a, b) ==
  IF a.k = "nan" \/ b.k = "nan" THEN FALSE
  ELSE IF a.k = "inf" THEN a.n < 0 /\ ~(b.k = "inf" /\ b.n < 0)
  ELSE IF b.k = "inf" THEN b.n > 0
  ELSE a.n * b.d < b.n * a.d

NumLe(a, b) == NumLt(a, b) \/ (a.k # "nan" /\ a = b)

\* Math.max(a, b), Math.min(a, b): NaN when either argument is NaN
MathMax(a, b) ==
  IF a.k = "nan" \/ b.k = "nan" THEN NaN ELSE IF NumLt(a, b) THEN b ELSE a

MathMin(a, b) ==
  IF a.k = "nan" \/ b.k = "nan" THEN NaN ELSE IF NumLt(b, a) THEN b ELSE a

RECURSIVE Pow10(_)
Pow10(e) == IF e = 0 THEN 1 ELSE 10 * Pow10(e - 1)

\* x.toFixed(digits): x rounded to `digits` decimals (half away from zero);
\* NaN and the infinities print as themselves
toFixed(x, digits) ==
  IF ~IsFin(x) THEN x
  ELSE LET p == Pow10(digits)
           m == Abs(x.n) * p
           r == (2 * m + x.d) \div (2 * x.d)
       IN Fin(Sign(x.n) * r, p)

----------------------------------------------------------------------------
(* Strings of digits *)

\* the value `undefined` of a storage item that was never set
Undefined == <<-1>>

RECURSIVE DigitsValue(_)
DigitsValue(s) ==
  IF s = <<>> THEN 0 ELSE 10 * DigitsValue(SubSeq(s, 1, Len(s) - 1)) + s[Len(s)]

\* parseInt(s) / parseFloat(s) of a string of digits: NaN for the empty string
parseInt(s) == IF s = <<>> THEN NaN ELSE Num(DigitsValue(s))

\* Number(s), and the implicit conversion of s in s / x and s * x: 0 for ""
ToNumber(s) == IF s = Undefined THEN NaN ELSE Num(DigitsValue(s))

RECURSIVE NatDigits(_)
NatDigits(i) == IF i < 10 THEN <<i>> ELSE Append(NatDigits(i \div 10), i % 10)

\* "HH:MM".split(':'): a time string is the sequence <<H, H, M, M>>
SplitColon(t) == <<SubSeq(t, 1, 2), SubSeq(t, 3, 4)>>

\* the time string "HH:MM" of hour h and minute m
TimeStr(h, m) == <<h \div 10, h % 10, m \div 10, m % 10>>

----------------------------------------------------------------------------
(* Dates.  A Date of the current day is the number of milliseconds since   *)
(* midnight; the calendar date itself is not modelled.                     *)

MsPerMinute == 1000 * 60

MsPerDay == 24 * 60 * MsPerMinute

\* now.getHours(), now.getMinutes(), now.getSeconds(), now.getDay()
getHours(t) == t.ms \div (60 * MsPerMinute)

getMinutes(t) == (t.ms \div MsPerMinute) % 60

getSeconds(t) == (t.ms \div 1000) % 60

getDay(t) == t.day

\* popup.js:192 getTimeFromString: today's Date at HH:MM:00.000
getTimeFromString(timeStr) ==
  LET parts   == SplitColon(timeStr)
      hours   == parseInt(parts[1])
      minutes == parseInt(parts[2])
  IN NumMul(NumAdd(NumMul(hours, Num(60)), minutes), Num(MsPerMinute))

----------------------------------------------------------------------------
(* First implementation: computations on the global settings record *)

\* popup.js:76-81 totalWorkMinutes: the shift less the break, in minutes
totalWorkMinutesOf(s) ==
  LET workStart == getTimeFromString(s.workStart)
      workEnd   == getTimeFromString(s.workEnd)
      shift     == NumDiv(NumSub(workEnd, workStart), Num(MsPerMinute))
  IN IF s.hasBreak
       THEN NumSub(shift,
                   NumDiv(NumSub(getTimeFromString(s.breakEnd),
                                 getTimeFromString(s.breakStart)),
                          Num(MsPerMinute)))
       ELSE shift

\* popup.js:83-84 (currentMinutes / totalWorkMinutes) * 100
progressRatio(s, t) ==
  LET workStart      == getTimeFromString(s.workStart)
      currentMinutes == NumDiv(NumSub(Num(t.ms), workStart), Num(MsPerMinute))
  IN NumMul(NumDiv(currentMinutes, totalWorkMinutesOf(s)), Num(100))

\* calculateWorkProgress without Math.min(100, ...)
calculateWorkProgress_NoUpperClamp(s, t) == MathMax(Num(0), progressRatio(s, t))

\* popup.js:71 calculateWorkProgress (first declaration)
calculateWorkProgress(s, t) ==
  MathMin(Num(100), MathMax(Num(0), progressRatio(s, t)))

\* workedMinutes without the deduction of the break once it is over
workedMinutesOf_BreakNotDeducted(s, t) ==
  LET nowD       == Num(t.ms)
      workStart  == getTimeFromString(s.workStart)
      breakStart == getTimeFromString(s.breakStart)
      breakEnd   == getTimeFromString(s.breakEnd)
      elapsed    == NumDiv(NumSub(nowD, workStart), Num(MsPerMinute))
  IN IF ~s.hasBreak THEN elapsed
     ELSE IF NumLe(breakStart, nowD) /\ NumLe(nowD, breakEnd)
       THEN NumDiv(NumSub(breakStart, workStart), Num(MsPerMinute))
     ELSE elapsed

\* popup.js:111-129 workedMinutes: the minutes since workStart, frozen
\* during the break and less the break after it
workedMinutesOf(s, t) ==
  LET nowD       == Num(t.ms)
      workStart  == getTimeFromString(s.workStart)
      breakStart == getTimeFromString(s.breakStart)
      breakEnd   == getTimeFromString(s.breakEnd)
      elapsed    == NumDiv(NumSub(nowD, workStart), Num(MsPerMinute))
      breakMinutes == NumDiv(NumSub(breakEnd, breakStart), Num(MsPerMinute))
  IN IF ~s.hasBreak THEN elapsed
     ELSE IF NumLe(breakStart, nowD) /\ NumLe(nowD, breakEnd)
       THEN NumDiv(NumSub(breakStart, workStart), Num(MsPerMinute))
     ELSE IF NumLt(breakEnd, nowD) THEN NumSub(elapsed, breakMinutes)
     ELSE elapsed

\* popup.js:100 calculateCurrentEarnings
calculateCurrentEarnings(s, t) ==
  LET nowD         == Num(t.ms)
      workStart    == getTimeFromString(s.workStart)
      workEnd      == getTimeFromString(s.workEnd)
      dailySalary  == NumDiv(s.monthlySalary, s.workingDays)
      minuteSalary == NumDiv(dailySalary, totalWorkMinutesOf(s))
  IN IF NumLt(nowD, workStart) \/ NumLt(workEnd, nowD)
       THEN Num(0)
       ELSE MathMax(Num(0), NumMul(minuteSalary, workedMinutesOf(s, t)))

\* popup.js:143 the hourly rate printed by updateEarnings
hourlyRate(s) == NumDiv(NumDiv(s.monthlySalary, s.workingDays), Num(8))

\* popup.js:335 calculateWeekendCountdown: the text, as its kind and numbers
calculateWeekendCountdown(t) ==
  LET dayOfWeek     == getDay(t)
      currentHour   == getHours(t)
      currentMinute == getMinutes(t)
      hoursLeft     == 17 - currentHour
      minutesLeft   == 60 - currentMinute
      daysUntilFriday == 5 - dayOfWeek
  IN IF dayOfWeek = 6 \/ dayOfWeek = 0
       THEN [text |-> "weekend", d |-> 0, h |-> 0, m |-> 0]
     ELSE IF dayOfWeek = 5
       THEN IF currentHour >= 18
              THEN [text |-> "begun", d |-> 0, h |-> 0, m |-> 0]
              ELSE [text |-> "untilShiftEnd", d |-> 0, h |-> hoursLeft, m |-> minutesLeft]
     ELSE IF daysUntilFriday > 0
       THEN [text |-> "untilFriday", d |-> daysUntilFriday, h |-> hoursLeft,
             m |-> minutesLeft]
       ELSE [text |-> "untilShiftEnd", d |-> 0, h |-> hoursLeft, m |-> minutesLeft]

\* popup.js:149 updateWeekendCountdown: the same computation, returned
updateWeekendCountdown(t) ==
  LET dayOfWeek     == getDay(t)
      currentHour   == getHours(t)
      currentMinute == getMinutes(t)
      hoursLeft     == 17 - currentHour
      minutesLeft   == 60 - currentMinute
      daysUntilFriday == 5 - dayOfWeek
  IN IF dayOfWeek = 6 \/ dayOfWeek = 0
       THEN [text |-> "weekend", d |-> 0, h |-> 0, m |-> 0]
     ELSE IF dayOfWeek = 5
       THEN IF currentHour >= 18
              THEN [text |-> "begun", d |-> 0, h |-> 0, m |-> 0]
              ELSE [text |-> "untilShiftEnd", d |-> 0, h |-> hoursLeft, m |-> minutesLeft]
     ELSE IF daysUntilFriday > 0
       THEN [text |-> "untilFriday", d |-> daysUntilFriday, h |-> hoursLeft,
             m |-> minutesLeft]
       ELSE [text |-> "untilShiftEnd", d |-> 0, h |-> hoursLeft, m |-> minutesLeft]

\* popup.js:318 formatDateTime / popup.js:57 updateDateTime: weekday and time
formatDateTime(t) ==
  [weekDay |-> getDay(t), hours |-> getHours(t), minutes |-> getMinutes(t),
   seconds |-> getSeconds(t)]

\* popup.js:47 updateDisplay: everything it writes or computes, from the
\* settings s at time t (progress and earnings are the values returned by
\* calculateWorkProgress and calculateCurrentEarnings, `from` the settings read)
updateDisplay(s, t) ==
  LET progress == calculateWorkProgress(s, t)
      earnings == calculateCurrentEarnings(s, t)
  IN [dateTime     |-> formatDateTime(t),
      countdown    |-> updateWeekendCountdown(t),
      progress     |-> progress,
      progressText |-> toFixed(progress, 1),
      earnings     |-> earnings,
      earningsText |-> toFixed(earnings, 2),
      hourlyText   |-> toFixed(hourlyRate(s), 2),
      from         |-> s]

----------------------------------------------------------------------------
(* Second implementation: computations on the chrome.storage.sync items *)

\* "HH:MM".split(':').map(Number) combined to minutes since midnight
\* (popup.js:390-393)
MinutesOf(timeStr) ==
  LET parts == SplitColon(timeStr)
  IN NumAdd(NumMul(ToNumber(parts[1]), Num(60)), ToNumber(parts[2]))

\* popup.js:385-410, the callback of calculateWorkProgress (second
\* declaration): threw is TRUE when .split is called on an undefined item
calculateWorkProgressSync(items, t) ==
  LET currentTime == Num(getHours(t) * 60 + getMinutes(t))
      threw ==
        \/ items.workStartTime = Undefined
        \/ items.workEndTime = Undefined
        \/ items.hasLunchBreak /\ (items.lunchStartTime = Undefined
                                    \/ items.lunchEndTime = Undefined)
      workStartMinutes == MinutesOf(items.workStartTime)
      workEndMinutes   == MinutesOf(items.workEndTime)
      totalWorkMinutes ==
        IF items.hasLunchBreak
          THEN NumSub(NumSub(workEndMinutes, workStartMinutes),
                      NumSub(MinutesOf(items.lunchEndTime),
                             MinutesOf(items.lunchStartTime)))
          ELSE NumSub(workEndMinutes, workStartMinutes)
      workedMinutes ==
        MathMax(Num(0),
                MathMin(NumSub(currentTime, workStartMinutes), totalWorkMinutes))
      progress   == NumMul(NumDiv(workedMinutes, totalWorkMinutes), Num(100))
      minuteRate == NumDiv(ToNumber(items.monthSalary),
                           NumMul(ToNumber(items.workDaysPerMonth), totalWorkMinutes))
      currentEarnings == NumMul(workedMinutes, minuteRate)
  IN IF threw
       THEN [threw |-> TRUE, progress |-> NaN, minuteRate |-> NaN,
             currentEarnings |-> NaN]
       ELSE [threw |-> FALSE, progress |-> progress, minuteRate |-> minuteRate,
             currentEarnings |-> currentEarnings]

\* no text written yet
Blank == [k |-> "blank", n |-> 0, d |-> 0]

\* popup.js:412-416: the callback's writes (none when it threw before them)
syncCallback(items, t, old) ==
  LET r == calculateWorkProgressSync(items, t)
  IN IF r.threw THEN old
     ELSE [old EXCEPT !.progress     = r.progress,
                      !.progressText = toFixed(r.progress, 1),
                      !.hourlyRate   = toFixed(NumMul(r.minuteRate, Num(60)), 2),
                      !.currentEarnings = r.currentEarnings,
                      !.earningsText = toFixed(r.currentEarnings, 2)]

\* popup.js:423-426 updateTimeDisplay: its own writes
updateTimeDisplay(t, old) ==
  [old EXCEPT !.dateTime = formatDateTime(t),
              !.countdown = calculateWeekendCountdown(t)]

----------------------------------------------------------------------------
(* Inputs: what a user can have typed into the settings form *)

\* <<workStart, workEnd, hasBreak, breakStart, breakEnd>>
ValidHours ==
  { <<TimeStr(9, 0),  TimeStr(18, 0), TRUE,  TimeStr(12, 0), TimeStr(13, 0)>>,
    <<TimeStr(9, 0),  TimeStr(17, 0), TRUE,  TimeStr(12, 0), TimeStr(13, 0)>>,
    <<TimeStr(9, 30), TimeStr(18, 0), FALSE, TimeStr(12, 0), TimeStr(13, 0)>>,
    <<TimeStr(8, 0),  TimeStr(12, 0), TRUE,  TimeStr(8, 0),  TimeStr(9, 0)>>,
    <<TimeStr(9, 0),  TimeStr(18, 0), TRUE,  TimeStr(17, 15), TimeStr(18, 0)>>,
    <<TimeStr(10, 0), TimeStr(19, 30), TRUE, TimeStr(12, 30), TimeStr(12, 30)>> }

\* zero paid minutes
DegenerateHours ==
  { <<TimeStr(9, 0), TimeStr(9, 0),  TRUE,  TimeStr(9, 0), TimeStr(9, 0)>>,
    <<TimeStr(9, 0), TimeStr(18, 0), TRUE,  TimeStr(9, 0), TimeStr(18, 0)>>,
    <<TimeStr(9, 0), TimeStr(9, 0),  FALSE, TimeStr(12, 0), TimeStr(13, 0)>> }

FormOf(salary, days, h) ==
  [monthlySalary |-> NatDigits(salary), workingDays |-> NatDigits(days),
   workStart |-> h[1], workEnd |-> h[2], hasBreak |-> h[3],
   breakStart |-> h[4], breakEnd |-> h[5]]

DefaultHours == <<TimeStr(9, 0), TimeStr(18, 0), TRUE, TimeStr(12, 0), TimeStr(13, 0)>>

FormInputs ==
  { FormOf(22000, 22, h) : h \in ValidHours \cup DegenerateHours }
  \cup { FormOf(9000, 20, h) : h \in ValidHours }
  \cup { FormOf(0, 22, DefaultHours) }

\* popup.js:211-219 the record saveSettings builds from the form fields
ParseForm(f) ==
  [monthlySalary |-> parseInt(f.monthlySalary),
   workingDays   |-> parseInt(f.workingDays),
   workStart |-> f.workStart, workEnd |-> f.workEnd, hasBreak |-> f.hasBreak,
   breakStart |-> f.breakStart, breakEnd |-> f.breakEnd]

\* popup.js:524-532 the items the submit handler builds from the form fields
SyncItemsOf(f) ==
  [monthSalary |-> f.monthlySalary, workDaysPerMonth |-> f.workingDays,
   workStartTime |-> f.workStart, workEndTime |-> f.workEnd,
   hasLunchBreak |-> f.hasBreak,
   lunchStartTime |-> f.breakStart, lunchEndTime |-> f.breakEnd]

\* chrome.storage.sync with nothing stored: every item undefined
\* (hasLunchBreak is only tested for truthiness, popup.js:397)
NoSyncItems ==
  [monthSalary |-> Undefined, workDaysPerMonth |-> Undefined,
   workStartTime |-> Undefined, workEndTime |-> Undefined,
   hasLunchBreak |-> FALSE,
   lunchStartTime |-> Undefined, lunchEndTime |-> Undefined]

\* popup.js:13-21 the initial value of settings
DefaultSettings ==
  [monthlySalary |-> Num(0), workingDays |-> Num(22),
   workStart |-> TimeStr(9, 0), workEnd |-> TimeStr(18, 0), hasBreak |-> TRUE,
   breakStart |-> TimeStr(12, 0), breakEnd |-> TimeStr(13, 0)]

\* popup.js:228-235 updateSettingsForm: the settings written into the fields
updateSettingsForm(s) ==
  [monthlySalary |-> IF IsFin(s.monthlySalary) THEN NatDigits(s.monthlySalary.n) ELSE <<>>,
   workingDays   |-> IF IsFin(s.workingDays) THEN NatDigits(s.workingDays.n) ELSE <<>>,
   workStart |-> s.workStart, workEnd |-> s.workEnd, hasBreak |-> s.hasBreak,
   breakStart |-> s.breakStart, breakEnd |-> s.breakEnd]

\* the DOM before any script wrote to it
BlankDom ==
  [dateTime |-> [weekDay |-> 0, hours |-> 0, minutes |-> 0, seconds |-> 0],
   countdown |-> [text |-> "", d |-> 0, h |-> 0, m |-> 0],
   progress |-> Blank, progressText |-> Blank, earnings |-> Blank,
   earningsText |-> Blank, hourlyText |-> Blank, from |-> DefaultSettings]

BlankDom2 ==
  [dateTime |-> [weekDay |-> 0, hours |-> 0, minutes |-> 0, seconds |-> 0],
   countdown |-> [text |-> "", d |-> 0, h |-> 0, m |-> 0],
   progress |-> Blank, progressText |-> Blank, hourlyRate |-> Blank,
   currentEarnings |-> Blank, earningsText |-> Blank]

----------------------------------------------------------------------------
(* The engine: both implementations recomputed as the clock advances       *)
(* through one day, for every input configuration.                         *)

StepMs == MsPerMinute \div SubMinute

Wednesday == [day |-> 3, ms |-> 0]

InitEngine ==
  \E f \in FormInputs :
    /\ now = Wednesday
    /\ form = f
    /\ settings = ParseForm(f)
    /\ local = <<ParseForm(f)>>
    /\ pc = "running"
    /\ pc2 = "running"
    /\ loadPc = "done"
    /\ saved = <<ParseForm(f)>>
    /\ storageQ = <<>>
    /\ saveResume = 0
    /\ dom = updateDisplay(ParseForm(f), Wednesday)
    /\ sync = SyncItemsOf(f)
    /\ syncGets = 0
    /\ dom2 = syncCallback(SyncItemsOf(f), Wednesday,
                           updateTimeDisplay(Wednesday, BlankDom2))
    /\ thrown = "none"
    /\ nSaves = 0
    /\ nTicks = 0

\* the clock moves on by one sample; updateDisplay (popup.js:30) and
\* updateTimeDisplay with its storage callback (popup.js:548, 385) run
EngineTick ==
  /\ now.ms + StepMs < MsPerDay
  /\ now' = [now EXCEPT !.ms = now.ms + StepMs]
  /\ dom' = updateDisplay(settings, now')
  /\ dom2' = syncCallback(sync, now', updateTimeDisplay(now', dom2))
  /\ thrown' = IF calculateWorkProgressSync(sync, now').threw THEN "TypeError" ELSE "none"
  /\ UNCHANGED <<settings, local, form, pc, pc2, loadPc, saved, storageQ,
                 saveResume, sync, syncGets, nSaves, nTicks>>

NextEngine == EngineTick

SpecEngine == InitEngine /\ [][NextEngine]_vars

----------------------------------------------------------------------------
(* The week: both implementations recomputed as the clock advances through *)
(* a whole week, Monday 00:00 to Sunday 24:00, with the default settings.  *)

DefaultForm == updateSettingsForm(DefaultSettings)

Monday == [day |-> 1, ms |-> 0]

InitWeek ==
  /\ now = Monday
  /\ form = DefaultForm
  /\ settings = DefaultSettings
  /\ local = <<>>
  /\ pc = "running"
  /\ pc2 = "running"
  /\ loadPc = "done"
  /\ saved = <<>>
  /\ storageQ = <<>>
  /\ saveResume = 0
  /\ dom = updateDisplay(DefaultSettings, Monday)
  /\ sync = SyncItemsOf(DefaultForm)
  /\ syncGets = 0
  /\ dom2 = syncCallback(SyncItemsOf(DefaultForm), Monday,
                         updateTimeDisplay(Monday, BlankDom2))
  /\ thrown = "none"
  /\ nSaves = 0
  /\ nTicks = 0

\* the clock one sample later, rolling over to the next day
NextSample(t) ==
  IF t.ms + StepMs < MsPerDay
    THEN [t EXCEPT !.ms = t.ms + StepMs]
    ELSE [day |-> (t.day + 1) % 7, ms |-> 0]

\* as EngineTick, across midnight, until the week is over
WeekTick ==
  /\ NextSample(now) # Monday
  /\ now' = NextSample(now)
  /\ dom' = updateDisplay(settings, now')
  /\ dom2' = syncCallback(sync, now', updateTimeDisplay(now', dom2))
  /\ thrown' = IF calculateWorkProgressSync(sync, now').threw THEN "TypeError" ELSE "none"
  /\ UNCHANGED <<settings, local, form, pc, pc2, loadPc, saved, storageQ,
                 saveResume, sync, syncGets, nSaves, nTicks>>

NextWeek == WeekTick

SpecWeek == InitWeek /\ [][NextWeek]_vars

----------------------------------------------------------------------------
(* The life cycle: start-up, the asynchronous load, saves, timer ticks.    *)

\* what the user types into the settings form in this specification
LifeInputs ==
  { FormOf(22000, 22, <<TimeStr(9, 0), TimeStr(18, 0), TRUE,
                        TimeStr(12, 0), TimeStr(13, 0)>>),
    FormOf(9000, 20, <<TimeStr(9, 30), TimeStr(18, 0), FALSE,
                       TimeStr(12, 0), TimeStr(13, 0)>>) }

\* the form before anything was typed or loaded into it
BlankForm ==
  [monthlySalary |-> <<>>, workingDays |-> <<>>,
   workStart |-> <<>>, workEnd |-> <<>>, hasBreak |-> FALSE,
   breakStart |-> <<>>, breakEnd |-> <<>>]

\* the time of day at which the popup is opened: 17:59 and one clock sample
OpeningTimes == { (17 * 60 + 59) * MsPerMinute + StepMs }

InitLife ==
  /\ now \in { [day |-> 3, ms |-> t] : t \in OpeningTimes }
  /\ form = BlankForm
  /\ settings = DefaultSettings
  /\ local \in {<<>>} \cup { <<ParseForm(f)>> : f \in LifeInputs }
  /\ pc = "start"
  /\ pc2 = "start"
  /\ loadPc = "idle"
  /\ saved = <<>>
  /\ storageQ = <<>>
  /\ saveResume = 0
  /\ dom = BlankDom
  /\ sync \in {NoSyncItems} \cup { SyncItemsOf(f) : f \in LifeInputs }
  /\ syncGets = 0
  /\ dom2 = BlankDom2
  /\ thrown = "none"
  /\ nSaves = 0
  /\ nTicks = 0

\* the clock one timer interval (popup.js:30, popup.js:548: 60000 ms) later
AfterInterval(t) ==
  IF t.ms + MsPerMinute < MsPerDay
    THEN [t EXCEPT !.ms = t.ms + MsPerMinute]
    ELSE [day |-> (t.day + 1) % 7, ms |-> t.ms + MsPerMinute - MsPerDay]

\* popup.js:26 init, up to its return: loadSettings runs to its await (the
\* storage get is issued), the listeners are set, updateDisplay runs with
\* the settings as they are, the interval timer is started
init ==
  /\ pc = "start"
  /\ pc' = "running"
  /\ loadPc' = "getPending"
  /\ storageQ' = Append(storageQ, [op |-> "get", value |-> <<>>])
  /\ dom' = updateDisplay(settings, now)
  /\ UNCHANGED <<now, settings, local, form, pc2, saved, saveResume, sync,
                 syncGets, dom2, thrown, nSaves, nTicks>>

\* chrome.storage.local serves its oldest request: a get delivers the stored
\* record to the awaiting loadSettings, a set stores the record and makes the
\* awaiting saveSettings ready to continue
storageServe ==
  /\ storageQ # <<>>
  /\ storageQ' = Tail(storageQ)
  /\ IF Head(storageQ).op = "get"
       THEN /\ saved' = local
            /\ loadPc' = "resolved"
            /\ UNCHANGED <<local, saveResume>>
       ELSE /\ local' = Head(storageQ).value
            /\ saveResume' = saveResume + 1
            /\ UNCHANGED <<saved, loadPc>>
  /\ UNCHANGED <<now, settings, form, pc, pc2, dom, sync, syncGets, dom2,
                 thrown, nSaves, nTicks>>

\* popup.js:38-41 loadSettings after its await
loadSettings ==
  /\ loadPc = "resolved"
  /\ loadPc' = "done"
  /\ IF saved # <<>>
       THEN /\ settings' = saved[1]
            /\ form' = updateSettingsForm(saved[1])
       ELSE UNCHANGED <<settings, form>>
  /\ UNCHANGED <<now, local, pc, pc2, saved, storageQ, saveResume, dom, sync,
                 syncGets, dom2, thrown, nSaves, nTicks>>

\* popup.js:210-221 saveSettings up to its await, on a click on save-settings
\* after the user typed f (or left the loaded form as it is)
saveSettings ==
  /\ pc = "running"
  /\ nSaves < MaxSaves
  /\ \E f \in LifeInputs \cup ({form} \ {BlankForm}) :
       /\ form' = f
       /\ settings' = ParseForm(f)
       /\ storageQ' = Append(storageQ, [op |-> "set", value |-> <<ParseForm(f)>>])
  /\ nSaves' = nSaves + 1
  /\ UNCHANGED <<now, local, pc, pc2, loadPc, saved, saveResume, dom, sync,
                 syncGets, dom2, thrown, nTicks>>

\* popup.js:222 saveSettings after its await
saveSettingsResume ==
  /\ saveResume > 0
  /\ saveResume' = saveResume - 1
  /\ dom' = updateDisplay(settings, now)
  /\ UNCHANGED <<now, settings, local, form, pc, pc2, loadPc, saved, storageQ,
                 sync, syncGets, dom2, thrown, nSaves, nTicks>>

\* popup.js:30 the interval timer of init fires: updateDisplay
timerTick ==
  /\ pc = "running"
  /\ nTicks < MaxTicks
  /\ nTicks' = nTicks + 1
  /\ now' = AfterInterval(now)
  /\ dom' = updateDisplay(settings, now')
  /\ UNCHANGED <<settings, local, form, pc, pc2, loadPc, saved, storageQ,
                 saveResume, sync, syncGets, dom2, thrown, nSaves>>

\* popup.js:542-549 the DOMContentLoaded handler: updateTimeDisplay writes
\* date and countdown and asks chrome.storage.sync for the items; the
\* interval timer is started (updatePoetry and the form filling of
\* initializeSettings touch nothing modelled here)
DOMContentLoaded ==
  /\ pc2 = "start"
  /\ pc2' = "running"
  /\ dom2' = updateTimeDisplay(now, dom2)
  /\ syncGets' = syncGets + 1
  /\ UNCHANGED <<now, settings, local, form, pc, loadPc, saved, storageQ,
                 saveResume, dom, sync, thrown, nSaves, nTicks>>

\* popup.js:385-417 chrome.storage.sync calls the callback of
\* calculateWorkProgress with the items stored
syncGetCallback ==
  /\ syncGets > 0
  /\ syncGets' = syncGets - 1
  /\ dom2' = syncCallback(sync, now, dom2)
  /\ thrown' = IF calculateWorkProgressSync(sync, now).threw THEN "TypeError" ELSE "none"
  /\ UNCHANGED <<now, settings, local, form, pc, pc2, loadPc, saved, storageQ,
                 saveResume, dom, sync, nSaves, nTicks>>

\* popup.js:522-537 the submit handler of settings-form: the items are
\* stored, then calculateWorkProgress asks for them again
submitSettings ==
  /\ pc2 = "running"
  /\ nSaves < MaxSaves
  /\ \E f \in LifeInputs : sync' = SyncItemsOf(f)
  /\ syncGets' = syncGets + 1
  /\ nSaves' = nSaves + 1
  /\ UNCHANGED <<now, settings, local, form, pc, pc2, loadPc, saved, storageQ,
                 saveResume, dom, dom2, thrown, nTicks>>

\* popup.js:548 the interval timer of the DOMContentLoaded handler fires
timerTick2 ==
  /\ pc2 = "running"
  /\ nTicks < MaxTicks
  /\ nTicks' = nTicks + 1
  /\ now' = AfterInterval(now)
  /\ dom2' = updateTimeDisplay(now', dom2)
  /\ syncGets' = syncGets + 1
  /\ UNCHANGED <<settings, local, form, pc, pc2, loadPc, saved, storageQ,
                 saveResume, dom, sync, thrown, nSaves>>

NextLife ==
  \/ init
  \/ storageServe
  \/ loadSettings
  \/ saveSettings
  \/ saveSettingsResume
  \/ timerTick
  \/ DOMContentLoaded
  \/ syncGetCallback
  \/ submitSettings
  \/ timerTick2

SpecLife == InitLife /\ [][NextLife]_vars

----------------------------------------------------------------------------
(* Quantities of the specification, in whole numbers, for stating the      *)
(* properties: minutes since midnight of a time string, paid minutes,      *)
(* validity of a settings record.                                          *)

MinuteOfDay(timeStr) ==
  DigitsValue(SubSeq(timeStr, 1, 2)) * 60 + DigitsValue(SubSeq(timeStr, 3, 4))

WS == MinuteOfDay(settings.workStart)

WE == MinuteOfDay(settings.workEnd)

BS == MinuteOfDay(settings.breakStart)

BE == MinuteOfDay(settings.breakEnd)

Salary == settings.monthlySalary.n

Days == settings.workingDays.n

TotalPaidMinutes == (WE - WS) - (IF settings.hasBreak THEN BE - BS ELSE 0)

ValidSettings ==
  /\ IsFin(settings.monthlySalary) /\ Salary >= 0
  /\ IsFin(settings.workingDays) /\ Days > 0
  /\ WE > WS
  /\ settings.hasBreak => (WS <= BS /\ BS <= BE /\ BE <= WE)

\* the sync items hold the same configuration as the settings record
SameConfiguration == sync = SyncItemsOf(updateSettingsForm(settings))

\* now, in milliseconds since midnight, against a minute of the day
AtMinute(m) == now.ms = m * MsPerMinute

Before(m) == now.ms < m * MsPerMinute

After(m) == now.ms > m * MsPerMinute

\* the day's earnings after `ms` paid milliseconds
PayFor(ms) == NumMul(Fin(Salary, Days * TotalPaidMinutes), Fin(ms, MsPerMinute))

----------------------------------------------------------------------------
(* C1: with a break and positive paid minutes, calculateCurrentEarnings    *)
(* returns, at every time within [breakStart, breakEnd], the amount earned *)
(* at breakStart, and at every whole minute after breakEnd up to workEnd   *)
(* that amount plus one minute's pay per minute since breakEnd.            *)
C1_FrozenInBreakResumesAfter ==
  (ValidSettings /\ settings.hasBreak /\ TotalPaidMinutes > 0) =>
    /\ (~Before(BS) /\ ~After(BE)) =>
         dom.earnings = PayFor((BS - WS) * MsPerMinute)
    /\ (After(BE) /\ ~After(WE) /\ now.ms % MsPerMinute = 0) =>
         dom.earnings = NumAdd(PayFor((BS - WS) * MsPerMinute),
                               PayFor(now.ms - BE * MsPerMinute))

\* inside a real break, between two whole minutes, with money earned
C1_Witness ==
  /\ ValidSettings /\ settings.hasBreak /\ TotalPaidMinutes > 0
  /\ Salary > 0 /\ WS < BS /\ BS < BE
  /\ After(BS) /\ Before(BE) /\ now.ms % MsPerMinute # 0
  /\ dom.earnings = PayFor((BS - WS) * MsPerMinute)
  /\ NumLt(Num(0), dom.earnings)

(* C2 as stated: outside [workStart, workEnd] the day's earnings are 0,    *)
(* in calculateCurrentEarnings and in the chrome.storage.sync callback     *)
(* (stated here for valid settings with positive paid minutes only).       *)
C2_ZeroOutsideWorkHours ==
  (ValidSettings /\ TotalPaidMinutes > 0 /\ SameConfiguration
     /\ (Before(WS) \/ After(WE))) =>
    /\ dom.earnings = Num(0)
    /\ dom2.currentEarnings = Num(0)

(* C3: for valid settings with positive paid minutes the progress of both  *)
(* implementations lies in [0, 100], is 0 at workStart and 100 at workEnd, *)
(* and never decreases as the clock advances through the day.              *)
C3_InRange ==
  (ValidSettings /\ TotalPaidMinutes > 0 /\ SameConfiguration) =>
    /\ NumLe(Num(0), dom.progress) /\ NumLe(dom.progress, Num(100))
    /\ NumLe(Num(0), dom2.progress) /\ NumLe(dom2.progress, Num(100))
    /\ AtMinute(WS) => (dom.progress = Num(0) /\ dom2.progress = Num(0))
    /\ AtMinute(WE) => (dom.progress = Num(100) /\ dom2.progress = Num(100))

C3_NonDecreasing ==
  (ValidSettings /\ TotalPaidMinutes > 0 /\ SameConfiguration
     /\ now'.day = now.day /\ now'.ms >= now.ms
     /\ settings' = settings /\ sync' = sync) =>
    /\ NumLe(dom.progress, dom'.progress)
    /\ NumLe(dom2.progress, dom2'.progress)

\* C3: progress stays in [0, 100], is 0 at workStart and 100 at workEnd,
\* and never decreases from one clock sample to the next
C3_ProgressBoundedMonotone == []C3_InRange /\ [][C3_NonDecreasing]_vars

\* the end of a shift with a break: both progress values arrived at 100
C3_Witness ==
  /\ ValidSettings /\ TotalPaidMinutes > 0 /\ SameConfiguration
  /\ settings.hasBreak /\ BS < BE
  /\ AtMinute(WE)
  /\ dom.progress = Num(100) /\ dom2.progress = Num(100)

\* the paid milliseconds worked at `now`, as calculateCurrentEarnings counts them
PaidWorkedMs ==
  IF settings.hasBreak /\ ~Before(BS) /\ ~After(BE)
    THEN (BS - WS) * MsPerMinute
  ELSE IF settings.hasBreak /\ After(BE)
    THEN now.ms - WS * MsPerMinute - (BE - BS) * MsPerMinute
  ELSE now.ms - WS * MsPerMinute

(* C4 as stated: with a break, at every time within [workStart, workEnd]   *)
(* the progress is 100 * paid worked minutes / total paid minutes, the     *)
(* paid worked minutes being those calculateCurrentEarnings uses.          *)
C4_ProgressInPaidMinutes ==
  (ValidSettings /\ settings.hasBreak /\ TotalPaidMinutes > 0
     /\ ~Before(WS) /\ ~After(WE)) =>
    dom.progress = NumMul(Num(100), Fin(PaidWorkedMs, TotalPaidMinutes * MsPerMinute))

(* C5 as stated: with zero or negative paid minutes, progress and earnings *)
(* are both 0 at every time (no NaN, no infinity).                         *)
C5_DegenerateGivesZero ==
  (TotalPaidMinutes <= 0) =>
    /\ dom.progress = Num(0)
    /\ dom.earnings = Num(0)

(* C6 as stated: the hourly rate shown is dailySalary / (paid minutes/60), *)
(* in updateEarnings and in the chrome.storage.sync callback.              *)
C6_HourlyRateFromPaidHours ==
  (ValidSettings /\ TotalPaidMinutes > 0 /\ SameConfiguration) =>
    /\ dom.hourlyText = toFixed(Fin(Salary * 60, Days * TotalPaidMinutes), 2)
    /\ dom2.hourlyRate = toFixed(Fin(Salary * 60, Days * TotalPaidMinutes), 2)

----------------------------------------------------------------------------
(* C7 as stated: with nothing persisted, neither the loadSettings /        *)
(* updateDisplay path nor the chrome.storage.sync callback raises an       *)
(* error, and each produces a progress and an earnings value.              *)
C7_NoSettingsNoError ==
  (local = <<>> /\ sync = NoSyncItems) =>
    /\ thrown = "none"
    /\ (pc = "running" => (IsFin(dom.progress) /\ IsFin(dom.earnings)))
    /\ (pc2 = "running" /\ syncGets = 0) =>
         (IsFin(dom2.progress) /\ IsFin(dom2.currentEarnings))

\* the countdown to Friday 18:00 in whole minutes, from a time of the week
MinutesToFridayEvening(t) ==
  ((5 - t.day) * 24 * 60 + 18 * 60) * MsPerMinute - t.ms

WellFormedCountdown(c, t) ==
  /\ c.text \in {"untilFriday", "untilShiftEnd"}
  /\ c.d >= 0 /\ c.h >= 0 /\ c.h <= 23 /\ c.m >= 0 /\ c.m <= 59
  /\ c.d * 24 * 60 + c.h * 60 + c.m = MinutesToFridayEvening(t) \div MsPerMinute

(* C8 as stated: from Monday 00:00 up to Friday 18:00 the countdown is a   *)
(* well-formed duration (D >= 0, 0 <= H <= 23, 0 <= M <= 59) that adds up  *)
(* to the whole minutes left until Friday 18:00; Saturday and Sunday give  *)
(* the weekend text, Friday from 18:00 the weekend-has-begun text.         *)
C8_CountdownWellFormed ==
  /\ (now.day \in {0, 6}) =>
       (dom2.countdown.text = "weekend" /\ dom.countdown.text = "weekend")
  /\ (now.day = 5 /\ getHours(now) >= 18) =>
       (dom2.countdown.text = "begun" /\ dom.countdown.text = "begun")
  /\ (now.day \in 1..5 /\ MinutesToFridayEvening(now) > 0) =>
       (WellFormedCountdown(dom2.countdown, now)
          /\ WellFormedCountdown(dom.countdown, now))

(* C9 as stated: with a workSettings record persisted, every updateDisplay *)
(* run by init (the first call and each timer tick) computes from the      *)
(* persisted record, never from the built-in defaults.                     *)
C9_DisplayFromPersisted ==
  (local # <<>> /\ nSaves = 0 /\ dom # BlankDom) => dom.from = local[1]

(* C10 as stated: once the popup runs and no storage operation is pending, *)
(* the in-memory settings equal the persisted workSettings record.         *)
C10_SettingsEqualPersisted ==
  (pc = "running" /\ storageQ = <<>> /\ loadPc = "done" /\ saveResume = 0
     /\ local # <<>>) =>
    settings = local[1]

====
